---- MODULE Spec2Model ----
(***************************************************************************)
(* Model of src/archive.py (Burp extension "Archives URL Fetcher").        *)
(*                                                                         *)
(* One BurpExtender object: the shared fields _stop_event, _counter_lock,  *)
(* _checked_count, the two buttons and the status label.  Every click on   *)
(* the fetch button starts a thread running _fetch_and_check_urls; that    *)
(* thread (the coordinator of a run) builds a Queue and a result list of   *)
(* its own and starts thread_count threads running _url_checker.           *)
(* Strings are sequences of one-character strings.                         *)
(***************************************************************************)
EXTENDS Integers, Sequences, FiniteSets, TLC

\* ---------------------------------------------------------------- bounds
MaxRuns    == 2   \* fetch-button clicks considered
MaxThreads == 2   \* worker threads started, over all runs
MaxLines   == 2   \* lines the archive index delivers, over all runs

Runs    == 1..MaxRuns
Workers == 1..MaxThreads

\* --------------------------------------------------------------- strings
Upper == <<"A","B","C","D","E","F","G","H","I","J","K","L","M",
           "N","O","P","Q","R","S","T","U","V","W","X","Y","Z">>
Lower == <<"a","b","c","d","e","f","g","h","i","j","k","l","m",
           "n","o","p","q","r","s","t","u","v","w","x","y","z">>

\* str.lower() of one character
LowerChar(c) ==
  IF \E i \in 1..26 : Upper[i] = c
    THEN Lower[CHOOSE i \in 1..26 : Upper[i] = c]
    ELSE c

\* str.lower()
ToLower(s) == [i \in 1..Len(s) |-> LowerChar(s[i])]

\* str.endswith(suffix)
EndsWith(s, suf) ==
  /\ Len(suf) <= Len(s)
  /\ SubSeq(s, Len(s) - Len(suf) + 1, Len(s)) = suf

\* str.startswith(prefix)
StartsWithOne(s, pre) ==
  /\ Len(pre) <= Len(s)
  /\ SubSeq(s, 1, Len(pre)) = pre

HttpScheme  == <<"h","t","t","p",":","/","/">>
HttpsScheme == <<"h","t","t","p","s",":","/","/">>

\* url_string.startswith(('http://', 'https://'))
StartsWith(s) == StartsWithOne(s, HttpScheme) \/ StartsWithOne(s, HttpsScheme)

\* lines 191-192: the URL the probe is made to
Normalize(url) == IF StartsWith(url) THEN url ELSE HttpScheme \o url

\* line 272
excluded_extensions ==
  << <<".","e","o","t">>, <<".","s","v","g">>, <<".","w","o","f","f">>,
     <<".","w","o","f","f","2">>, <<".","c","s","s">>, <<".","t","t","f">>,
     <<".","p","n","g">>, <<".","j","p","g">>, <<".","j","p","e","g">>,
     <<".","g","i","f">> >>

\* the condition of the comprehension of lines 273-275
\* mutant of Excluded: the URL is compared as written (no lower())
ExcludedAsWritten(url) ==
  \E k \in 1..Len(excluded_extensions) :
      EndsWith(url, excluded_extensions[k])

Excluded(url) ==
  \E k \in 1..Len(excluded_extensions) :
      EndsWith(ToLower(url), excluded_extensions[k])

\* lines 273-275
FilterUrls(lines) == SelectSeq(lines, LAMBDA url : ~Excluded(url))

\* the URLs the archive index can return in this model
UrlC   == <<"e","/","c">>
UrlPng == <<"e","/","a",".","P","N","G">>
UrlPool == {UrlC, UrlPng}

\* what reader.readLine() can deliver: every list of at most n lines
RawLists(n) == UNION {[1..k -> UrlPool] : k \in 0..n}


\* ------------------------------------------------------- probe responses
\* What conn.getResponseCode() / conn.getContentLength() can give for one
\* probe (lines 194-204): a status with a declared length (-1: unknown), or
\* an exception raised by the connection.
ProbeResponses ==
  { [exc |-> FALSE, status |-> 200, size |-> 512],
    [exc |-> FALSE, status |-> 400, size |-> -1],
    [exc |-> FALSE, status |-> 404, size |-> 512],
    [exc |-> TRUE,  status |-> 0,   size |-> 0] }

\* str(e_check) of the exception of a failed probe
Cause == <<"timed out">>

\* line 208: "[!] Error on {}: {}".format(url_string, str(e_check))
ErrorText(url_string) == <<"[!] Error on ">> \o url_string \o <<": ">> \o Cause

\* mutant of Kept: 400 is not discarded
KeptUnless404(status) == status # 404

\* line 203: status not in [400, 404]
Kept(status) == status \notin {400, 404}

\* mutant of ProbeAppend: the except clause records nothing
ProbeAppendDropsFailure(resp, url_string, idx) ==
  IF resp.exc \/ ~Kept(resp.status)
    THEN << >>
    ELSE << [status |-> resp.status, size |-> resp.size,
             url_string |-> url_string, idx |-> idx] >>

\* lines 201-208: what one probe appends to results (<<>>: nothing).
\* idx is the position of the target in the queue as built (bookkeeping).
ProbeAppend(resp, url_string, idx) ==
  IF resp.exc
    THEN << [status |-> -1, size |-> -1,
             url_string |-> ErrorText(url_string), idx |-> idx] >>
    ELSE IF Kept(resp.status)
      THEN << [status |-> resp.status, size |-> resp.size,
               url_string |-> url_string, idx |-> idx] >>
      ELSE << >>

\* ---------------------------------------------------------------- report
\* mutant of SortedDesc: the results are left in the order of their arrival
AsAppended(s) == s

RECURSIVE InsertDesc(_, _)
\* x goes after every element whose size is >= its own (stable)
InsertDesc(x, s) ==
  IF s = << >> THEN << x >>
  ELSE IF Head(s).size >= x.size
    THEN << Head(s) >> \o InsertDesc(x, Tail(s))
    ELSE << x >> \o s

RECURSIVE SortedDesc(_)
\* line 297: sorted(results, key=lambda item: item[1], reverse=True)
SortedDesc(s) ==
  IF s = << >> THEN << >>
  ELSE InsertDesc(s[Len(s)], SortedDesc(SubSeq(s, 1, Len(s) - 1)))

Digits == <<"0","1","2","3","4","5","6","7","8","9">>

RECURSIVE StrNat(_)
StrNat(n) ==
  IF n < 10 THEN << Digits[n + 1] >>
  ELSE StrNat(n \div 10) \o << Digits[(n % 10) + 1] >>

\* str(n) / "{}".format(n) of an integer
Str(n) == IF n < 0 THEN <<"-">> \o StrNat(-n) ELSE StrNat(n)

\* lines 305-312: the line appended for one result
ResultLine(item) ==
  IF item.status = -1
    THEN [kind |-> "text", text |-> item.url_string]
    ELSE [kind |-> "row", status |-> Str(item.status),
          size_str |-> IF item.size # -1 THEN Str(item.size)
                                         ELSE <<"N","/","A">>,
          url |-> item.url_string]

\* lines 299-312: header, separator and one line per sorted result
ReportLines(results) ==
  << [kind |-> "text", text |-> <<"Status", "Response Size", "URL">>],
     [kind |-> "text", text |-> <<"------", "-------------", "---">>] >>
  \o [i \in 1..Len(results) |-> ResultLine(SortedDesc(results)[i])]

\* the texts of the status label
Status(t)      == [t |-> t]
Checking(x, y) == [t |-> "Checking", x |-> x, y |-> y]


\* ----------------------------------------------------------------- state
\* The text of self.outputArea is not part of the state: ReportLines gives
\* what a run appends to it.
VARIABLES
  stop_event,     \* self._stop_event (threading.Event): TRUE when set
  counter_lock,   \* self._counter_lock: << >> when free, else <<run, worker>>
  checked_count,  \* self._checked_count
  fetchEnabled,   \* self.fetchButton.isEnabled()
  stopEnabled,    \* self.stopButton.isEnabled()
  statusLabel,    \* text of self.statusLabel: the last UpdateUI posted
  nruns,          \* threads started by _on_fetch_button_click so far
  rpc,            \* rpc[r]: where the thread of run r is in _fetch_and_check_urls
  thread_count,   \* thread_count[r] (line 240)
  found,          \* found[r]: len(lines) (line 270)
  filtered_urls,  \* filtered_urls[r] (lines 273-275)
  total_to_check, \* total_to_check[r] (line 276)
  q,              \* q[r]: the Queue of run r, as positions in filtered_urls[r]
  unfinished,     \* q[r].unfinished_tasks
  results,        \* results[r] (line 287)
  report,         \* report[r]: the lines run r appended to the output area
  wpc,            \* wpc[r][w]: where worker w of run r is in _url_checker
  item,           \* item[r][w]: position of the url_string the worker holds
  \* bookkeeping, read by no action
  taken,          \* taken[r][i]: times q.get() returned entry i
  discarded,      \* discarded[r]: entries whose probe returned 400 or 404
  failed,         \* failed[r]: entries whose probe raised
  posts,          \* posts[r]: the X of every "Checking: X / Y" a worker posted
  term,           \* term[r]: the terminal status the thread of run r posted
  stopReq,        \* stopReq[r]: when the first stop click of run r arrived
  \* one call of a function of the program taken on its own
  call            \* its arguments and, once it has returned, its result

buttons == << fetchEnabled, stopEnabled >>
fields  == << stop_event, counter_lock, checked_count >>
shared  == << fields, buttons, statusLabel, nruns >>
inputs  == << thread_count, found, filtered_urls, total_to_check >>
pool    == << q, unfinished, results >>
runv    == << rpc, inputs, pool, report >>
workv   == << wpc, item >>
probes  == << taken, discarded, failed, posts >>
ghost   == << probes, term, stopReq >>
vars    == << shared, runv, workv, ghost, call >>

\* registerExtenderCallbacks (lines 48-52) and _build_ui (lines 101-103, 133)
Registered ==
  /\ stop_event = FALSE
  /\ counter_lock = << >>
  /\ checked_count = 0
  /\ fetchEnabled = TRUE
  /\ stopEnabled = FALSE
  /\ statusLabel = Status("Idle")
  /\ nruns = 0
  /\ rpc = [r \in Runs |-> "idle"]
  /\ thread_count = [r \in Runs |-> 0]
  /\ found = [r \in Runs |-> 0]
  /\ filtered_urls = [r \in Runs |-> << >>]
  /\ total_to_check = [r \in Runs |-> 0]
  /\ q = [r \in Runs |-> << >>]
  /\ unfinished = [r \in Runs |-> 0]
  /\ results = [r \in Runs |-> << >>]
  /\ report = [r \in Runs |-> << >>]
  /\ wpc = [r \in Runs |-> [w \in Workers |-> "none"]]
  /\ item = [r \in Runs |-> [w \in Workers |-> 0]]
  /\ taken = [r \in Runs |-> << >>]
  /\ discarded = [r \in Runs |-> {}]
  /\ failed = [r \in Runs |-> {}]
  /\ posts = [r \in Runs |-> << >>]
  /\ term = [r \in Runs |-> "none"]
  /\ stopReq = [r \in Runs |-> "no"]

\* no function is taken on its own
NoCall == [fn |-> "none"]

Init == Registered /\ call = NoCall

RECURSIVE Sum(_, _)
Sum(f, n) == IF n = 0 THEN 0 ELSE f[n] + Sum(f, n - 1)

\* what is left of the bounds MaxThreads and MaxLines
ThreadsLeft == MaxThreads - Sum(thread_count, MaxRuns)
LinesLeft   == MaxLines - Sum(found, MaxRuns)

\* the thread of run r has been started and has not returned
Running(r) == rpc[r] \in {"L221", "L222", "L223", "validate", "fetch", "launch",
                          "join", "render", "status", "L331", "L332"}

\* where run r is: before its workers are started, waiting for them at
\* q.join(), or past q.join()
Phase(r) ==
  IF rpc[r] = "join" THEN "checking"
  ELSE IF rpc[r] \in {"render", "status"} THEN "late"
  ELSE IF rpc[r] \in {"L331", "L332"} THEN "ending"
  ELSE "early"

\* ------------------------------------------------------------ UI handlers
\* _on_fetch_button_click (lines 149-155); the button delivers the click
\* only while it is enabled.
OnFetchButtonClick ==
  /\ fetchEnabled
  /\ nruns < MaxRuns
  /\ stop_event' = FALSE
  /\ nruns' = nruns + 1
  /\ rpc' = [rpc EXCEPT ![nruns + 1] = "L221"]
  /\ UNCHANGED << counter_lock, checked_count, buttons, statusLabel >>
  /\ UNCHANGED << inputs, pool, report, workv, ghost >>
  /\ UNCHANGED call

\* _on_stop_button_click (lines 157-161)
OnStopButtonClick ==
  /\ stopEnabled
  /\ stop_event' = TRUE
  /\ stopEnabled' = FALSE
  /\ stopReq' = [r \in Runs |->
        IF Running(r) /\ stopReq[r] = "no" THEN Phase(r) ELSE stopReq[r]]
  /\ UNCHANGED << counter_lock, checked_count, fetchEnabled, statusLabel, nruns >>
  /\ UNCHANGED << runv, workv, probes, term >>
  /\ UNCHANGED call

\* ------------------------------------------- _fetch_and_check_urls (run r)
\* line 221
DisableFetch(r) ==
  /\ rpc[r] = "L221"
  /\ fetchEnabled' = FALSE
  /\ rpc' = [rpc EXCEPT ![r] = "L222"]
  /\ UNCHANGED << fields, stopEnabled, statusLabel, nruns >>
  /\ UNCHANGED << inputs, pool, report, workv, ghost >>
  /\ UNCHANGED call

\* line 222
EnableStop(r) ==
  /\ rpc[r] = "L222"
  /\ stopEnabled' = TRUE
  /\ rpc' = [rpc EXCEPT ![r] = "L223"]
  /\ UNCHANGED << fields, fetchEnabled, statusLabel, nruns >>
  /\ UNCHANGED << inputs, pool, report, workv, ghost >>
  /\ UNCHANGED call

\* lines 223-224
ResetCount(r) ==
  /\ rpc[r] = "L223"
  /\ checked_count' = 0
  /\ statusLabel' = Status("Starting...")
  /\ rpc' = [rpc EXCEPT ![r] = "validate"]
  /\ UNCHANGED << stop_event, counter_lock, buttons, nruns >>
  /\ UNCHANGED << inputs, pool, report, workv, ghost >>
  /\ UNCHANGED call

\* lines 227-240: the texts of the domain and limit fields and the entry of
\* the threads dropdown are inputs
Validate(r) ==
  /\ rpc[r] = "validate"
  /\ \E domainEmpty \in BOOLEAN, limitNumeric \in BOOLEAN, n \in 0..ThreadsLeft :
       IF domainEmpty \/ ~limitNumeric THEN
         /\ statusLabel' = Status("Error")
         /\ term' = [term EXCEPT ![r] = "Error"]
         /\ rpc' = [rpc EXCEPT ![r] = "L331"]
         /\ UNCHANGED thread_count
       ELSE
         /\ n >= 1
         /\ thread_count' = [thread_count EXCEPT ![r] = n]
         /\ rpc' = [rpc EXCEPT ![r] = "fetch"]
         /\ UNCHANGED << statusLabel, term >>
  /\ UNCHANGED << fields, buttons, nruns >>
  /\ UNCHANGED << found, filtered_urls, total_to_check, pool, report >>
  /\ UNCHANGED << workv, probes, stopReq >>
  /\ UNCHANGED call

\* mutant of FetchList: the test for an empty answer (lines 265-268) is left out
FetchListEmptyGoesOn(r) ==
  /\ rpc[r] = "fetch"
  /\ \/ /\ statusLabel' = Status("Fetch Error")
        /\ term' = [term EXCEPT ![r] = "Fetch Error"]
        /\ rpc' = [rpc EXCEPT ![r] = "L331"]
        /\ UNCHANGED << found, filtered_urls, total_to_check >>
     \/ \E lines \in RawLists(LinesLeft) :
          /\ found' = [found EXCEPT ![r] = Len(lines)]
          /\ filtered_urls' = [filtered_urls EXCEPT ![r] = FilterUrls(lines)]
          /\ total_to_check' = [total_to_check EXCEPT ![r] = Len(FilterUrls(lines))]
          /\ statusLabel' = Checking(0, Len(FilterUrls(lines)))
          /\ rpc' = [rpc EXCEPT ![r] = "launch"]
          /\ UNCHANGED term
  /\ UNCHANGED << fields, buttons, nruns >>
  /\ UNCHANGED << thread_count, pool, report >>
  /\ UNCHANGED << workv, probes, stopReq >>
  /\ UNCHANGED call

\* lines 242-281: the archive query, its outcome being an input: it raises
\* (lines 323-328), delivers no line (lines 265-268) or delivers lines
FetchList(r) ==
  /\ rpc[r] = "fetch"
  /\ \/ /\ statusLabel' = Status("Fetch Error")
        /\ term' = [term EXCEPT ![r] = "Fetch Error"]
        /\ rpc' = [rpc EXCEPT ![r] = "L331"]
        /\ UNCHANGED << found, filtered_urls, total_to_check >>
     \/ \E lines \in RawLists(LinesLeft) :
          IF lines = << >> THEN
            /\ statusLabel' = Status("Error")
            /\ term' = [term EXCEPT ![r] = "Error"]
            /\ rpc' = [rpc EXCEPT ![r] = "L331"]
            /\ UNCHANGED << found, filtered_urls, total_to_check >>
          ELSE
            /\ found' = [found EXCEPT ![r] = Len(lines)]
            /\ filtered_urls' = [filtered_urls EXCEPT ![r] = FilterUrls(lines)]
            /\ total_to_check' = [total_to_check EXCEPT ![r] = Len(FilterUrls(lines))]
            /\ statusLabel' = Checking(0, Len(FilterUrls(lines)))
            /\ rpc' = [rpc EXCEPT ![r] = "launch"]
            /\ UNCHANGED term
  /\ UNCHANGED << fields, buttons, nruns >>
  /\ UNCHANGED << thread_count, pool, report >>
  /\ UNCHANGED << workv, probes, stopReq >>
  /\ UNCHANGED call

\* lines 283-293: q.put of every URL, then thread_count threads started
Launch(r) ==
  /\ rpc[r] = "launch"
  /\ q' = [q EXCEPT ![r] = [i \in 1..total_to_check[r] |-> i]]
  /\ unfinished' = [unfinished EXCEPT ![r] = total_to_check[r]]
  /\ results' = [results EXCEPT ![r] = << >>]
  /\ wpc' = [wpc EXCEPT ![r] =
               [w \in Workers |-> IF w <= thread_count[r] THEN "loop" ELSE "none"]]
  /\ taken' = [taken EXCEPT ![r] = [i \in 1..total_to_check[r] |-> 0]]
  /\ rpc' = [rpc EXCEPT ![r] = "join"]
  /\ UNCHANGED << shared, inputs, report, item >>
  /\ UNCHANGED << discarded, failed, posts, term, stopReq >>
  /\ UNCHANGED call

\* mutant of JoinReturns: the thread does not wait at q.join()
JoinReturnsAtOnce(r) == unfinished[r] >= 0

\* q.join() may return: unfinished_tasks is 0
JoinReturns(r) == unfinished[r] = 0

\* line 295
Join(r) ==
  /\ rpc[r] = "join"
  /\ JoinReturns(r)
  /\ rpc' = [rpc EXCEPT ![r] = "render"]
  /\ UNCHANGED << shared, inputs, pool, report, workv, ghost >>
  /\ UNCHANGED call

\* lines 297-312
Render(r) ==
  /\ rpc[r] = "render"
  /\ report' = [report EXCEPT ![r] = ReportLines(results[r])]
  /\ rpc' = [rpc EXCEPT ![r] = "status"]
  /\ UNCHANGED << shared, inputs, pool, workv, ghost >>
  /\ UNCHANGED call

\* lines 314-321
FinalStatus(r) ==
  /\ rpc[r] = "status"
  /\ IF stop_event
       THEN /\ statusLabel' = Status("Stopped")
            /\ term' = [term EXCEPT ![r] = "Stopped"]
       ELSE /\ statusLabel' = Status("Complete")
            /\ term' = [term EXCEPT ![r] = "Complete"]
  /\ rpc' = [rpc EXCEPT ![r] = "L331"]
  /\ UNCHANGED << fields, buttons, nruns >>
  /\ UNCHANGED << inputs, pool, report, workv, probes, stopReq >>
  /\ UNCHANGED call

\* line 331
EnableFetch(r) ==
  /\ rpc[r] = "L331"
  /\ fetchEnabled' = TRUE
  /\ rpc' = [rpc EXCEPT ![r] = "L332"]
  /\ UNCHANGED << fields, stopEnabled, statusLabel, nruns >>
  /\ UNCHANGED << inputs, pool, report, workv, ghost >>
  /\ UNCHANGED call

\* line 332, and the thread returns
DisableStop(r) ==
  /\ rpc[r] = "L332"
  /\ stopEnabled' = FALSE
  /\ rpc' = [rpc EXCEPT ![r] = "done"]
  /\ UNCHANGED << fields, fetchEnabled, statusLabel, nruns >>
  /\ UNCHANGED << inputs, pool, report, workv, ghost >>
  /\ UNCHANGED call

\* ------------------------------------------- _url_checker (worker w of run r)
\* line 188, first operand: not q.empty()
CheckEmpty(r, w) ==
  /\ wpc[r][w] = "loop"
  /\ wpc' = [wpc EXCEPT ![r][w] = IF q[r] = << >> THEN "exited" ELSE "chkstop"]
  /\ UNCHANGED << shared, runv, item, ghost >>
  /\ UNCHANGED call

\* mutant of CheckStop: the stop flag is not looked at
CheckStopIgnoresFlag(r, w) ==
  /\ wpc[r][w] = "chkstop"
  /\ wpc' = [wpc EXCEPT ![r][w] = "get"]
  /\ UNCHANGED << shared, runv, item, ghost >>
  /\ UNCHANGED call

\* line 188, second operand: not self._stop_event.is_set()
CheckStop(r, w) ==
  /\ wpc[r][w] = "chkstop"
  /\ wpc' = [wpc EXCEPT ![r][w] = IF stop_event THEN "exited" ELSE "get"]
  /\ UNCHANGED << shared, runv, item, ghost >>
  /\ UNCHANGED call

\* mutant of Dequeued: the head is returned and left in the queue
DequeuedHeadKept(s) == s

\* the Queue after q.get() has returned its head
Dequeued(s) == Tail(s)

\* line 189: q.get() blocks while the queue is empty
Get(r, w) ==
  /\ wpc[r][w] = "get"
  /\ q[r] # << >>
  /\ item' = [item EXCEPT ![r][w] = Head(q[r])]
  /\ q' = [q EXCEPT ![r] = Dequeued(q[r])]
  /\ taken' = [taken EXCEPT ![r][Head(q[r])] = @ + 1]
  /\ wpc' = [wpc EXCEPT ![r][w] = "probe"]
  /\ UNCHANGED << shared, rpc, inputs, unfinished, results, report >>
  /\ UNCHANGED << discarded, failed, posts, term, stopReq >>
  /\ UNCHANGED call

\* lines 190-208: the probe, its response being an input
Probe(r, w) ==
  /\ wpc[r][w] = "probe"
  /\ \E resp \in ProbeResponses :
       /\ results' = [results EXCEPT ![r] =
             @ \o ProbeAppend(resp, Normalize(filtered_urls[r][item[r][w]]),
                              item[r][w])]
       /\ discarded' = [discarded EXCEPT ![r] =
             IF ~resp.exc /\ resp.status \in {400, 404}
               THEN @ \cup {item[r][w]} ELSE @]
       /\ failed' = [failed EXCEPT ![r] =
             IF resp.exc THEN @ \cup {item[r][w]} ELSE @]
  /\ wpc' = [wpc EXCEPT ![r][w] = "lock"]
  /\ UNCHANGED << shared, rpc, inputs, q, unfinished, report >>
  /\ UNCHANGED << item, taken, posts, term, stopReq >>
  /\ UNCHANGED call

\* lines 211-212: the lock taken, _checked_count incremented
Increment(r, w) ==
  /\ wpc[r][w] = "lock"
  /\ counter_lock = << >>
  /\ counter_lock' = << r, w >>
  /\ checked_count' = checked_count + 1
  /\ wpc' = [wpc EXCEPT ![r][w] = "post"]
  /\ UNCHANGED << stop_event, buttons, statusLabel, nruns >>
  /\ UNCHANGED << runv, item, ghost >>
  /\ UNCHANGED call

\* lines 213-214, and the lock released
PostProgress(r, w) ==
  /\ wpc[r][w] = "post"
  /\ statusLabel' = Checking(checked_count, total_to_check[r])
  /\ posts' = [posts EXCEPT ![r] = Append(@, checked_count)]
  /\ counter_lock' = << >>
  /\ wpc' = [wpc EXCEPT ![r][w] = "task_done"]
  /\ UNCHANGED << stop_event, checked_count, buttons, nruns >>
  /\ UNCHANGED << runv, item, taken, discarded, failed, term, stopReq >>
  /\ UNCHANGED call

\* line 215
TaskDone(r, w) ==
  /\ wpc[r][w] = "task_done"
  /\ unfinished' = [unfinished EXCEPT ![r] = @ - 1]
  /\ item' = [item EXCEPT ![r][w] = 0]
  /\ wpc' = [wpc EXCEPT ![r][w] = "loop"]
  /\ UNCHANGED << shared, rpc, inputs, q, results, report >>
  /\ UNCHANGED << ghost >>
  /\ UNCHANGED call

\* ---------------------------------------------------------- specification
Coordinator(r) ==
  \/ DisableFetch(r) \/ EnableStop(r) \/ ResetCount(r) \/ Validate(r)
  \/ FetchList(r) \/ Launch(r) \/ Join(r) \/ Render(r) \/ FinalStatus(r)
  \/ EnableFetch(r) \/ DisableStop(r)

Worker(r, w) ==
  \/ CheckEmpty(r, w) \/ CheckStop(r, w) \/ Get(r, w) \/ Probe(r, w)
  \/ Increment(r, w) \/ PostProgress(r, w) \/ TaskDone(r, w)

Next ==
  \/ OnFetchButtonClick
  \/ OnStopButtonClick
  \/ \E r \in Runs : Coordinator(r)
  \/ \E r \in Runs, w \in Workers : Worker(r, w)

Spec == Init /\ [][Next]_vars

\* ------------------------------------------------ the URL filter on its own
MaxRaw == 3   \* lines of a raw list given to the filter

\* lines the archive index may deliver: one URL for each suffix of
\* excluded_extensions, suffixes in capitals, a suffix that is not at the
\* end, a suffix with a character more, and lines with no suffix at all
RichUrls ==
  { <<"b">>,
    <<"a",".","e","o","t">>, <<"a",".","s","v","g">>,
    <<"a",".","w","o","f","f">>, <<"a",".","w","o","f","f","2">>,
    <<"a",".","c","s","s">>, <<"a",".","t","t","f">>,
    <<"a",".","p","n","g">>, <<"a",".","j","p","g">>,
    <<"a",".","j","p","e","g">>, <<"a",".","g","i","f">>,
    <<"a",".","P","N","G">>, <<"a",".","C","s","s">>,
    <<".","g","i","f">>,
    <<"a",".","p","n","g","/">>, <<"a",".","g","i","f","?","x">>,
    <<"a",".","w","o","f","f","3">>, <<"p","n","g">>, << >> }

RichLists == UNION {[1..k -> RichUrls] : k \in 0..MaxRaw}

\* the list comprehension of lines 273-275 is about to be evaluated on lines
FilterInit ==
  /\ Registered
  /\ call \in {[fn |-> "filter", lines |-> l, filtered_urls |-> << >>,
                 returned |-> FALSE] : l \in RichLists}

\* lines 273-275
FilterCall ==
  /\ call.fn = "filter"
  /\ ~call.returned
  /\ call' = [call EXCEPT !.filtered_urls = FilterUrls(call.lines),
                          !.returned = TRUE]
  /\ UNCHANGED << shared, runv, workv, ghost >>

FilterSpec == FilterInit /\ [][FilterCall]_vars

\* ---------------------------------------------------- the report on its own
MaxOutcomes == 4   \* outcomes in the results list given to the report

\* responses with sizes that differ, with a size of 0, with no declared size,
\* and a probe that raised
RichResponses ==
  { [exc |-> FALSE, status |-> 200, size |-> 100],
    [exc |-> FALSE, status |-> 200, size |-> 500],
    [exc |-> FALSE, status |-> 301, size |-> -1],
    [exc |-> FALSE, status |-> 500, size |-> 0],
    [exc |-> TRUE,  status |-> 0,   size |-> 0] }

\* the results lists that probes with these responses leave, in every order
\* of arrival
RichResults ==
  UNION { { [i \in 1..k |-> Head(ProbeAppend(c[i], Normalize(UrlC), i))] :
              c \in [1..k -> RichResponses] } : k \in 0..MaxOutcomes }

\* q.join() has returned (line 295) with results
ReportInit ==
  /\ Registered
  /\ call \in {[fn |-> "report", results |-> s, appended |-> << >>,
                 returned |-> FALSE] : s \in RichResults}

\* lines 297-312
ReportCall ==
  /\ call.fn = "report"
  /\ ~call.returned
  /\ call' = [call EXCEPT !.appended = ReportLines(call.results),
                          !.returned = TRUE]
  /\ UNCHANGED << shared, runv, workv, ghost >>

ReportSpec == ReportInit /\ [][ReportCall]_vars


\* ---------------------------------------------------------------- claims
\* run r has passed q.join() (line 295)
PastBarrier(r) ==
  \/ rpc[r] \in {"render", "status"}
  \/ rpc[r] \in {"L331", "L332", "done"} /\ term[r] \in {"Complete", "Stopped"}

\* worker w of run r is a thread that has not left the loop of _url_checker
Alive(r, w) == wpc[r][w] \notin {"none", "exited"}

\* worker w of run r can take a step, at once or as soon as the worker that
\* holds _counter_lock has released it
CanStep(r, w) ==
  \/ ENABLED Worker(r, w)
  \/ /\ wpc[r][w] = "lock"
     /\ counter_lock # << >>
     /\ ENABLED Worker(counter_lock[1], counter_lock[2])

\* the outcomes in results[r] that come from queue entry i
OutcomesOf(r, i) == {k \in 1..Len(results[r]) : results[r][k].idx = i}

\* the queue entries of run r
Targets(r) == 1..total_to_check[r]

\* C1: when a run in which no stop was requested passes the barrier and
\* starts rendering, _checked_count equals the number N of enqueued targets
\* and results holds N minus the number of 400/404 probes.
C1_AllCountedAtRender ==
  \A r \in Runs :
    (rpc[r] = "render" /\ stopReq[r] = "no") =>
       /\ checked_count = total_to_check[r]
       /\ Len(results[r]) = total_to_check[r] - Cardinality(discarded[r])

\* C2: a run whose stop flag was set during checking, with targets left in
\* the queue, can still leave the barrier: the barrier is open, or a worker
\* of the run can still take a step towards opening it.  (Only the workers
\* of a run call task_done on its queue, so a state where this fails is a
\* run that never terminates.)
C2_StoppedRunCanTerminate ==
  \A r \in Runs :
    (rpc[r] = "join" /\ stopReq[r] = "checking" /\ stop_event) =>
       \/ JoinReturns(r)
       \/ \E w \in Workers : CanStep(r, w)

\* C3 (as claimed): every dequeue happens while the stop flag is clear.
C3_DequeueOnlyWhileClear ==
  [][\A r \in Runs, w \in Workers :
       (wpc[r][w] = "get" /\ wpc'[r][w] = "probe") => ~stop_event]_vars

\* C3 (amended): a worker reaches q.get() only from an evaluation of the
\* loop condition that found the stop flag clear, a queue entry is handed to
\* a worker only by that q.get(), and a worker that evaluates the loop
\* condition with the flag set leaves the loop and never dequeues again.
C3_DequeueOnlyAfterClearPoll ==
  [][\A r \in Runs, w \in Workers :
       /\ (wpc'[r][w] = "get" /\ wpc[r][w] # "get")
             => (wpc[r][w] = "chkstop" /\ ~stop_event)
       /\ (item'[r][w] # item[r][w] /\ item'[r][w] # 0)
             => (wpc[r][w] = "get" /\ wpc'[r][w] = "probe")
       /\ (wpc[r][w] = "chkstop" /\ stop_event /\ wpc'[r][w] # wpc[r][w])
             => wpc'[r][w] = "exited"
       /\ wpc[r][w] = "exited" => wpc'[r][w] = "exited"]_vars

\* C3 witness: a stop was observed by a worker that left entries in the
\* queue, while another worker of the run still has a probe in flight.
C3_Witness ==
  \E r \in Runs, w \in Workers, v \in Workers :
    /\ stop_event /\ q[r] # << >>
    /\ wpc[r][w] = "exited" /\ wpc[r][v] = "probe"

\* C4: the coordinator is past the barrier only when every worker it
\* launched has left its loop.
C4_BarrierWaitsForAllWorkers ==
  \A r \in Runs : PastBarrier(r) => \A w \in Workers : ~Alive(r, w)

\* C5: no worker is blocked in q.get() on an empty queue.  (Entries are put
\* only before the workers are started, so such a worker is blocked for
\* ever.)
C5_NoWorkerBlockedOnQueue ==
  \A r \in Runs, w \in Workers : wpc[r][w] = "get" => q[r] # << >>


\* C6 (as claimed): once a run has passed the barrier, every enqueued target
\* has exactly one outcome in results, or none if it was never dequeued.
C6_OneOutcomePerDequeuedTarget ==
  \A r \in Runs :
    PastBarrier(r) =>
      \A i \in DOMAIN taken[r] :
        Cardinality(OutcomesOf(r, i)) = IF taken[r][i] = 0 THEN 0 ELSE 1

\* C6 (amended): a target that was not dequeued, or whose probe returned
\* 400 or 404, has no outcome; once the run has passed the barrier every
\* other target has exactly one.
C6_OneOutcomeUnlessDiscarded ==
  \A r \in Runs :
    \A i \in DOMAIN taken[r] :
      /\ (taken[r][i] = 0 \/ i \in discarded[r])
            => Cardinality(OutcomesOf(r, i)) = 0
      /\ (PastBarrier(r) /\ taken[r][i] # 0 /\ i \notin discarded[r])
            => Cardinality(OutcomesOf(r, i)) = 1

\* C6 witness: a run past the barrier with a discarded target and a kept one
C6_Witness ==
  \E r \in Runs :
    /\ PastBarrier(r)
    /\ discarded[r] # {}
    /\ results[r] # << >>

\* C7: no queue entry is dequeued twice, results holds at most one outcome
\* per entry, and every step leaves the outcomes already in results in
\* place and unchanged.
C7_DequeuedOnceAppendOnly ==
  /\ [](\A r \in Runs : \A i \in DOMAIN taken[r] :
           /\ taken[r][i] <= 1
           /\ Cardinality(OutcomesOf(r, i)) <= 1)
  /\ [][\A r \in Runs :
           /\ Len(results'[r]) >= Len(results[r])
           /\ SubSeq(results'[r], 1, Len(results[r])) = results[r]]_vars

\* C7 witness: two workers of a run have probes in flight at once, one
\* outcome being in results already
C7_Witness ==
  \E r \in Runs, w \in Workers, v \in Workers :
    /\ w # v
    /\ wpc[r][w] = "probe" /\ wpc[r][v] = "lock"
    /\ item[r][w] # item[r][v]
    /\ results[r] # << >>

\* C8: a "Checking: X / Y" shown by the status label has X <= Y.
C8_ShownCountWithinTotal ==
  statusLabel.t = "Checking" => statusLabel.x <= statusLabel.y

\* the workers of run r between the end of their probe and their post
Counting(r) == {w \in Workers : wpc[r][w] \in {"lock", "post"}}

\* C9: every probe that has ended is counted and posted once, and the
\* values the workers of a run post are 1, 2, ..., K in that order.
C9_ProgressCountsUp ==
  \A r \in Runs :
    /\ Len(posts[r]) + Cardinality(Counting(r))
          = Len(results[r]) + Cardinality(discarded[r])
    /\ posts[r] = [k \in 1..Len(posts[r]) |-> k]

\* text contains part as a run of consecutive characters
Contains(text, part) ==
  \E k \in 0..(Len(text) - Len(part)) :
    SubSeq(text, k + 1, k + Len(part)) = part

Validated(r) == thread_count[r] >= 1

\* the archive query of run r raised or delivered no line, and the thread
\* went on to its finally clause
ListFailed(r) ==
  /\ Validated(r)
  /\ found[r] = 0
  /\ rpc[r] \in {"L331", "L332", "done"}

\* run r has no queue entry, no worker, no probe and no outcome
NoPool(r) ==
  /\ \A w \in Workers : wpc[r][w] = "none"
  /\ q[r] = << >> /\ unfinished[r] = 0 /\ results[r] = << >>
  /\ taken[r] = << >> /\ posts[r] = << >>
  /\ failed[r] = {} /\ discarded[r] = {}

ValidationFailed(r) ==
  /\ ~Validated(r)
  /\ rpc[r] \in {"L331", "L332", "done"}

\* C12: a run whose domain is empty or whose limit is not a number ends
\* with the status Error, having made no archive query and created no
\* queue, worker or probe, and when its thread returns the fetch button is
\* enabled and the stop button disabled.
C12_ValidationErrorLeavesControlsIdle ==
  /\ [](\A r \in Runs :
         ValidationFailed(r) =>
           /\ term[r] = "Error"
           /\ found[r] = 0 /\ filtered_urls[r] = << >>
           /\ NoPool(r))
  /\ [][\A r \in Runs :
         (ValidationFailed(r) /\ rpc[r] = "L332" /\ rpc'[r] = "done") =>
            (fetchEnabled' /\ ~stopEnabled')]_vars

\* C13: while a run during which the stop flag was set is in progress, no
\* step clears the flag and no second stop click sets it again.
C13_StopFlagSetOncePerRun ==
  [][\A r \in Runs :
       (Running(r) /\ stopReq[r] # "no" /\ stop_event) =>
          /\ stop_event'
          /\ ~(stopEnabled /\ ~stopEnabled' /\ rpc' = rpc)]_vars

\* the ten suffixes of the denylist
Denylist ==
  { <<".","e","o","t">>, <<".","s","v","g">>, <<".","w","o","f","f">>,
    <<".","w","o","f","f","2">>, <<".","c","s","s">>, <<".","t","t","f">>,
    <<".","p","n","g">>, <<".","j","p","g">>, <<".","j","p","e","g">>,
    <<".","g","i","f">> }

\* the lowercased form of url ends with a suffix of the denylist
Suffixed(url) ==
  \E ext \in Denylist :
    LET d == Len(url) - Len(ext) IN
      /\ d >= 0
      /\ \A j \in 1..Len(ext) : LowerChar(url[d + j]) = ext[j]

\* C14: the list the filter returns is the raw list without the lines whose
\* lowercased form ends with a suffix of the denylist: every other line is
\* kept, in the order of the raw list, and nothing else is in it; the empty
\* list gives the empty list.
C14_FilterIsExactSubsequence ==
  (call.fn = "filter" /\ call.returned) =>
    LET raw  == call.lines
        kept == {i \in 1..Len(raw) : ~Suffixed(raw[i])}
    IN /\ Len(call.filtered_urls) = Cardinality(kept)
       /\ \A i \in kept :
            call.filtered_urls[Cardinality({k \in kept : k <= i})] = raw[i]
       /\ raw = << >> => call.filtered_urls = << >>

\* C14 witness: of three lines the middle one, a suffix in capitals, was
\* dropped and the two others were kept, the second of them holding a
\* suffix that is not at its end
C14_Witness ==
  /\ call.fn = "filter" /\ call.returned
  /\ call.lines = << <<"b">>, <<"a",".","P","N","G">>, <<"a",".","p","n","g","/">> >>
  /\ call.filtered_urls = << <<"b">>, <<"a",".","p","n","g","/">> >>

\* the one-to-one maps of 1..n onto itself
Perms(n) ==
  {p \in [1..n -> 1..n] : \A i \in 1..n, j \in 1..n : i # j => p[i] # p[j]}

\* line is what the report shows for outcome o: its text alone when its
\* status is -1, else its status, its size (N/A for -1) and its URL
Shows(line, o) ==
  IF o.status = -1
    THEN line.kind = "text" /\ line.text = o.url_string
    ELSE /\ line.kind = "row"
         /\ line.status = Str(o.status)
         /\ line.size_str = (IF o.size = -1 THEN <<"N","/","A">> ELSE Str(o.size))
         /\ line.url = o.url_string

\* C15: after its two heading lines the report has one line for every
\* outcome of results, none left out and none twice, in an order in which
\* the sizes never increase, so that no outcome of size -1 precedes one of
\* known size; each line shows its outcome as Shows says.
C15_ReportOneLinePerOutcomeBySize ==
  (call.fn = "report" /\ call.returned) =>
    LET res == call.results
        out == call.appended
        n   == Len(res)
    IN /\ Len(out) = n + 2
       /\ \E p \in Perms(n) :
            /\ \A i \in 1..n : Shows(out[i + 2], res[p[i]])
            /\ \A i \in 1..n, j \in 1..n :
                 i < j => /\ res[p[i]].size >= res[p[j]].size
                          /\ res[p[i]].size = -1 => res[p[j]].size = -1

\* C15 witness: the sizes arrived as 100, -1, 500, -1, the first -1 from a
\* probe that raised and the second from a response with no declared size;
\* the report shows 500, then 100, then the text of the failure, then a
\* row with N/A
C15_Witness ==
  /\ call.fn = "report" /\ call.returned
  /\ [i \in 1..Len(call.results) |-> call.results[i].size] = <<100, -1, 500, -1>>
  /\ call.results[2].status = -1 /\ call.results[4].status = 301
  /\ call.appended[3].kind = "row" /\ call.appended[3].size_str = <<"5","0","0">>
  /\ call.appended[4].kind = "row" /\ call.appended[4].size_str = <<"1","0","0">>
  /\ call.appended[5].kind = "text"
  /\ call.appended[6].kind = "row" /\ call.appended[6].size_str = <<"N","/","A">>

\* C16: the status Complete is posted only by a run all of whose targets
\* were dequeued and probed and during which no stop was requested; and
\* when the thread of a run that posted Complete or Stopped returns, the
\* stop flag is set if and only if the status is Stopped.
C16_CompleteIffFlagClear ==
  /\ [](\A r \in Runs :
         term[r] = "Complete" =>
           /\ q[r] = << >> /\ unfinished[r] = 0
           /\ \A i \in Targets(r) :
                /\ taken[r][i] = 1
                /\ i \in discarded[r] \/ Cardinality(OutcomesOf(r, i)) = 1)
  /\ [][\A r \in Runs :
         (rpc[r] = "status" /\ term'[r] = "Complete") => stopReq[r] = "no"]_vars
  /\ [][\A r \in Runs :
         (rpc[r] = "L332" /\ rpc'[r] = "done"
            /\ term[r] \in {"Complete", "Stopped"}) =>
               (stop_event' <=> term[r] = "Stopped")]_vars

\* C17: a run posts the status Stopped only if its first stop click came
\* after its workers were started (while it waited in q.join() or between
\* q.join() and line 314), never if it came while the run was still
\* checking its input fields or querying the archive.
C17_StoppedOnlyFromChecking ==
  \A r \in Runs :
    term[r] = "Stopped" => stopReq[r] \in {"checking", "late"}

\* the increments of _checked_count made so far by the workers of run r
OwnCount(r) ==
  Len(posts[r]) + Cardinality({w \in Workers : wpc[r][w] = "post"})

\* C18: when a run starts its workers _checked_count is 0 and the stop
\* flag is clear, unless a stop was requested during this very run; and
\* while the run waits in q.join(), _checked_count is the number of
\* increments made by its own workers.
C18_NoLeakBetweenRuns ==
  /\ [][\A r \in Runs :
         (rpc[r] = "launch" /\ rpc'[r] = "join") =>
            /\ checked_count = 0
            /\ stop_event => stopReq[r] # "no"]_vars
  /\ [](\A r \in Runs : rpc[r] = "join" => checked_count = OwnCount(r))

\* C19: at most one thread running _fetch_and_check_urls has been started
\* and has not returned.
C19_AtMostOneRunInProgress ==
  Cardinality({r \in Runs : Running(r)}) <= 1

\* C20: a worker of a run posts a "Checking: X / Y" only before the run has
\* posted Complete or Stopped; once that status is posted no worker of the
\* run holds a target whose progress is still to be posted, and no target
\* is left to dequeue.
C20_TerminalStatusAfterProgress ==
  /\ [][\A r \in Runs :
         Len(posts'[r]) > Len(posts[r]) => term[r] = "none"]_vars
  /\ [](\A r \in Runs :
         term[r] \in {"Complete", "Stopped"} =>
           /\ q[r] = << >>
           /\ \A w \in Workers :
                wpc[r][w] \notin {"probe", "lock", "post", "task_done"})

\* C20 witness: the status label shows the Complete of a run whose workers
\* posted two progress updates, one of its workers being still alive
C20_Witness ==
  \E r \in Runs, w \in Workers :
    /\ term[r] = "Complete"
    /\ statusLabel = Status("Complete")
    /\ Len(posts[r]) = 2
    /\ Alive(r, w)

====
